---- MODULE Spec2Model ----
(***************************************************************************)
(* Model of eta.core.primitives: the process() drivers of the four         *)
(* algorithm families (DenseOpticalFlow, BackgroundSubtractor,             *)
(* EdgeDetector, FeaturePointDetector) with their _reset/_process_frame    *)
(* hooks.  One algorithm instance is constructed (Init) and then used for  *)
(* up to MaxRuns sequential process() calls.  Each statement of process()  *)
(* that can raise is one step; raising is a nondeterministic outcome of    *)
(* the step.                                                               *)
(***************************************************************************)
EXTENDS Integers, Sequences, FiniteSets, TLC

\* Longest input video, in frames.
MaxFrames == 3
\* Number of sequential process() calls made on the one instance.
MaxRuns == 2

----------------------------------------------------------------------------
\* Classes, parameters and handles

Variants ==
    { "FarnebackDenseOpticalFlow", "MOG2BackgroundSubtractor",
      "KNNBackgroundSubtractor", "CannyEdgeDetector",
      "HarrisFeaturePointDetector", "FASTFeaturePointDetector",
      "ORBFeaturePointDetector" }

Backends == { "OpenCV2", "OpenCV3" }

\* The base class whose process() a variant inherits.
Family(v) ==
    CASE v = "FarnebackDenseOpticalFlow" -> "DenseOpticalFlow"
      [] v \in { "MOG2BackgroundSubtractor", "KNNBackgroundSubtractor" }
            -> "BackgroundSubtractor"
      [] v = "CannyEdgeDetector" -> "EdgeDetector"
      [] OTHER -> "FeaturePointDetector"

\* The optional array-path arguments of process(), in the order in which
\* their directories are ensured.
ArrayOrder(f) ==
    CASE f = "DenseOpticalFlow" -> << "cart_path", "polar_path" >>
      [] f = "BackgroundSubtractor" -> << "fgmask_path" >>
      [] f = "EdgeDetector" -> << "masks_path" >>
      [] OTHER -> << "coords_path" >>

Range(s) == { s[i] : i \in DOMAIN s }

ArrayParams(f) == Range(ArrayOrder(f))

\* The optional video-path arguments of process().
VideoParams(f) ==
    IF f = "BackgroundSubtractor" THEN { "fgvid_path", "bgvid_path" }
                                  ELSE { "vid_path" }

AllArrayParams ==
    { "cart_path", "polar_path", "fgmask_path", "masks_path", "coords_path" }

AllVideoParams == { "vid_path", "fgvid_path", "bgvid_path" }

\* r: the input reader (the VideoProcessor's reader in the with-families),
\* vw: the VideoProcessor's single output writer, fgw/bgw: the two writers
\* of BackgroundSubtractor.process.
Handles == { "r", "vw", "fgw", "bgw" }

Writers == { "vw", "fgw", "bgw" }

\* Python None, and an optional value that is set.
None == << >>

Some(x) == << x >>

\* The input video of n frames; frame i carries pixel content i.
Video(n) == [ i \in 1..n |-> [ space |-> "bgr", px |-> i ] ]

\* cv2.cvtColor(img, cv2.COLOR_BGR2GRAY)
Gray(img) == [ space |-> "gray", px |-> img.px ]

VARIABLES
    variant,        \* class of the algorithm instance
    backend,        \* the OpenCV major version that is installed
    prev_frame,     \* FarnebackDenseOpticalFlow._prev_frame
    fgbg,           \* MOG2/KNNBackgroundSubtractor._fgbg: None or Some(history)
    run,            \* number of process() calls started so far
    entry,          \* the cross-frame state the instance had at this call
    pc,             \* position inside process(); idle/done outside a call
    req,            \* the path arguments of this call that are set
    video,          \* the frames of the input video of this call
    frame_number,   \* r.frame_number / p.frame_number
    res,            \* value returned by the last _process_frame call
    err,            \* exception propagating now ("none" if none)
    raises,         \* every exception raised in this call, in order
    opened,         \* per handle: times opened in this call
    closed,         \* per handle: times closed/released in this call
    ensured,        \* array params whose directory was ensured in this call
    files,          \* per array param: the .npy files saved in this call
    vids,           \* per video param: the frames written in this call
    calls,          \* _process_frame calls made in this call
    resets,         \* _reset calls made in this call
    results,        \* values returned by _process_frame in this call
    log             \* every operation of this call, in order

VARIABLES
    heap,           \* per list object: its elements (the Python lists)
    slot,           \* per caller variable: the container bound to it
    ret             \* the last DataContainer operation and its outcome

inst == << variant, backend >>
alg == << prev_frame, fgbg >>
args == << run, entry, req, video >>
hnd == << opened, closed >>
outs == << files, vids >>
data == << heap, slot, ret >>
proc == << variant, backend, prev_frame, fgbg, run, entry, pc, req, video,
           frame_number, res, err, raises, opened, closed, ensured, files,
           vids, calls, resets, results, log >>
vars == << variant, backend, prev_frame, fgbg, run, entry, pc, req, video,
           frame_number, res, err, raises, opened, closed, ensured, files,
           vids, calls, resets, results, log, heap, slot, ret >>

family == Family(variant)

img == video[frame_number]

Ev(op, obj) == [ op |-> op, obj |-> obj, k |-> frame_number ]

\* An exception raised by statement `at` while frame k is current.
Exc(e, at) == [ exc |-> e, at |-> at, k |-> frame_number ]

Raise(e, at) ==
    /\ err' = e
    /\ raises' = Append(raises, Exc(e, at))

NoRaise == UNCHANGED << err, raises >>

----------------------------------------------------------------------------
\* eta/core/data.py: classes, records and encoded objects

\* The longest list a container or an encoded object holds.
MaxLen == 2

\* The base container class and its concrete subclass.
Classes == { "DataContainer", "LocalizedTags" }

\* _DATA_CLS of each class: unset (None) on the base class.
DATA_CLS(cls) ==
    IF cls = "LocalizedTags" THEN Some("NamedRelativePoint") ELSE None

\* A label as a caller or an encoded object supplies it: a string or not.
Label(t, v) == [ t |-> t, v |-> v ]

\* str(label): a string is kept, any other value becomes its text.
str(l) == Label("str", l.v)

\* A RelativePoint instance.
RelativePoint(x, y) == [ type |-> "RelativePoint", x |-> x, y |-> y ]

\* RelativePoint.from_dict(d)
RelativePoint_from_dict(d) == RelativePoint(d.x, d.y)

\* NamedRelativePoint.__init__(label, relative_point)
NamedRelativePoint(label, relative_point) ==
    [ type |-> "NamedRelativePoint", label |-> str(label),
      relative_point |-> relative_point ]

\* NamedRelativePoint.from_dict(d), and a variant that drops the point.
NamedRelativePoint_from_dict_origin(d) ==
    NamedRelativePoint(d.label, RelativePoint(0, 0))

NamedRelativePoint_from_dict(d) ==
    NamedRelativePoint(d.label, RelativePoint_from_dict(d.relative_point))

\* The instances callers put into containers: a tag "a" at the origin, a
\* tag "b" elsewhere on the x axis, and an instance of another class.
Instances ==
    { NamedRelativePoint(Label("str", "a"), RelativePoint(0, 0)),
      NamedRelativePoint(Label("str", "b"), RelativePoint(1, 0)),
      RelativePoint(0, 1) }

\* The encoded records that from_dict is given; the last has a label that
\* is not a string.
EncodedRecords ==
    { [ label |-> Label("str", "a"), relative_point |-> [ x |-> 0, y |-> 0 ] ],
      [ label |-> Label("str", "b"), relative_point |-> [ x |-> 1, y |-> 0 ] ],
      [ label |-> Label("int", "5"), relative_point |-> [ x |-> 0, y |-> 0 ] ] }

\* All sequences over S of length at most n.
SeqsUpTo(S, n) == UNION { [ 1..k -> S ] : k \in 0..n }

\* An encoded container: a dictionary with or without the key "data".
Dict(keys, records) == [ keys |-> keys, data |-> records ]

EncodedContainers ==
    { Dict({}, << >>) }
        \cup { Dict({ "data" }, rs) : rs \in SeqsUpTo(EncodedRecords, MaxLen) }

\* The filters callers pass, and what each returns for an instance o.
Filters == { "label_a", "on_x_axis" }

Eval(f, o) ==
    IF f = "label_a"
    THEN IF o.type = "NamedRelativePoint"
         THEN o.label = Label("str", "a")
         ELSE FALSE
    ELSE IF o.type = "NamedRelativePoint"
         THEN o.relative_point.y = 0
         ELSE o.y = 0

\* The filter lists callers pass: empty, one filter, two filters.
FilterLists ==
    { << >> } \cup { << f >> : f \in Filters }
              \cup { << f, g >> : f, g \in Filters }

\* The caller's variables that hold containers: c1 is the container the
\* caller builds or decodes and appends to, c2 one that is derived from c1.
\* Cells are the list objects.
Slots == { "c1", "c2" }

Cells == { "l1", "l2" }

\* The record of a DataContainer operation: op on class cls, receiver on,
\* result bound to out, exception exc; filters/match as passed to
\* get_matches; count as returned by count_matches; d the object decoded,
\* decoded the records decoded from it; encoded the object produced by
\* serialize(); before the data of every container as it was when the
\* operation began.
Snapshot ==
    [ s \in Slots |->
        IF slot[s] = None THEN None ELSE Some(heap[slot[s][1].data]) ]

Ret(op, cls, on, out, exc) ==
    [ op |-> op, cls |-> cls, on |-> on, out |-> out, exc |-> exc,
      filters |-> << >>, match |-> "none", count |-> 0,
      d |-> Dict({}, << >>), decoded |-> 0, encoded |-> Dict({}, << >>),
      before |-> Snapshot ]

NoContainers ==
    /\ heap = [ c \in Cells |-> << >> ]
    /\ slot = [ s \in Slots |-> None ]
    /\ ret = Ret("none", "none", "none", "none", "none")

----------------------------------------------------------------------------
\* Construction

\* __init__ of every variant: the parameters are stored and the cross-frame
\* state starts unset.
Idle ==
    /\ prev_frame = None
    /\ fgbg = None
    /\ run = 0
    /\ entry = [ prev |-> None, model |-> None ]
    /\ pc = "idle"
    /\ req = {}
    /\ video = << >>
    /\ frame_number = 0
    /\ res = None
    /\ err = "none"
    /\ raises = << >>
    /\ opened = [ h \in Handles |-> 0 ]
    /\ closed = [ h \in Handles |-> 0 ]
    /\ ensured = {}
    /\ files = [ p \in AllArrayParams |-> << >> ]
    /\ vids = [ p \in AllVideoParams |-> << >> ]
    /\ calls = 0
    /\ resets = 0
    /\ results = << >>
    /\ log = << >>

Init ==
    /\ variant \in Variants
    /\ backend \in Backends
    /\ Idle
    /\ NoContainers

----------------------------------------------------------------------------
\* process(): entry and directory creation

\* A caller invokes process(input_path, ...) with the path arguments in rq
\* set and an input video of n frames.
process(rq, n) ==
    /\ pc \in { "idle", "done" }
    /\ run < MaxRuns
    /\ run' = run + 1
    /\ entry' = [ prev |-> prev_frame, model |-> fgbg ]
    /\ req' = rq
    /\ video' = Video(n)
    /\ frame_number' = 0
    /\ res' = None
    /\ err' = "none"
    /\ raises' = << >>
    /\ opened' = [ h \in Handles |-> 0 ]
    /\ closed' = [ h \in Handles |-> 0 ]
    /\ ensured' = {}
    /\ files' = [ p \in AllArrayParams |-> << >> ]
    /\ vids' = [ p \in AllVideoParams |-> << >> ]
    /\ calls' = 0
    /\ resets' = 0
    /\ results' = << >>
    /\ log' = << >>
    /\ pc' = "ensure"
    /\ UNCHANGED << data, inst, alg >>

Call ==
    \E rq \in SUBSET (ArrayParams(family) \cup VideoParams(family)),
       n \in 0..MaxFrames : process(rq, n)

\* The requested array params, in the order their directories are ensured.
RequestedArrays_first_only ==
    SelectSeq(ArrayOrder(family),
              LAMBDA p : p \in req /\ p = ArrayOrder(family)[1])

RequestedArrays ==
    SelectSeq(ArrayOrder(family), LAMBDA p : p \in req)

EnsureEvents(n) ==
    [ i \in 1..n |-> Ev("ensure_basedir", RequestedArrays[i]) ]

\* "if cart_path: etau.ensure_basedir(cart_path)" and its siblings.  The
\* i-th call may fail with an I/O error, which leaves process() at once.
EnsureBasedirs ==
    /\ pc = "ensure"
    /\ \/ /\ ensured' = Range(RequestedArrays)
          /\ log' = log \o EnsureEvents(Len(RequestedArrays))
          /\ pc' = IF family = "BackgroundSubtractor" THEN "open_r"
                                                      ELSE "reset"
          /\ NoRaise
       \/ \E i \in 1..Len(RequestedArrays) :
            /\ ensured' = { RequestedArrays[j] : j \in 1..(i - 1) }
            /\ log' = log \o EnsureEvents(i)
            /\ Raise("IOError", "ensure_basedir")
            /\ pc' = "done"
    /\ UNCHANGED << data, inst, alg, args, frame_number, res, hnd, outs, calls,
                    resets, results >>

----------------------------------------------------------------------------
\* The _reset and _process_frame hooks

\* FarnebackDenseOpticalFlow._reset: the new value of self._prev_frame.
Farneback_reset_keep(pf) == pf

Farneback_reset(pf) == None

\* FarnebackDenseOpticalFlow._process_frame up to the flow computation:
\* the previous frame handed to calcOpticalFlowFarneback (the current frame
\* itself when none is stored).
Farneback_prev(pf, im) == IF pf = None THEN Some(Gray(im)) ELSE pf

\* FarnebackDenseOpticalFlow._process_frame: the flow returned and the
\* value left in self._prev_frame.
Farneback_process_frame_no_update(pf, im) ==
    [ flow |-> [ alg |-> "calcOpticalFlowFarneback",
                 ctx |-> Farneback_prev(pf, im),
                 curr |-> Gray(im) ],
      prev |-> Farneback_prev(pf, im) ]

Farneback_process_frame(pf, im) ==
    [ flow |-> [ alg |-> "calcOpticalFlowFarneback",
                 ctx |-> Farneback_prev(pf, im),
                 curr |-> Gray(im) ],
      prev |-> Some(Gray(im)) ]

\* cv2.createBackgroundSubtractorMOG2 / KNN exist in OpenCV 3 only.
CanCreateBackgroundSubtractor_any(b) == TRUE

CanCreateBackgroundSubtractor(b) == b = "OpenCV3"

\* MOG2/KNNBackgroundSubtractor._reset: the new value of self._fgbg, a
\* freshly created model that has seen no frame.
BackgroundSubtractor_reset(m) == Some(<< >>)

\* MOG2/KNNBackgroundSubtractor._process_frame on a created model with
\* history h: apply() learns the frame, and (fgmask, bgimg) depend on the
\* frames learnt so far.
BackgroundSubtractor_process_frame(v, h, im) ==
    [ out |-> [ alg |-> v, ctx |-> h, curr |-> im ],
      model |-> Some(Append(h, im)) ]

\* CannyEdgeDetector._process_frame
Canny_process_frame(im) ==
    [ alg |-> "Canny", ctx |-> << >>, curr |-> Gray(im) ]

\* Harris/FAST/ORBFeaturePointDetector._process_frame
FeaturePoint_process_frame(v, im) ==
    [ alg |-> v, ctx |-> << >>, curr |-> im ]

IsBGS == family = "BackgroundSubtractor"

\* Where control goes when the loop ends or a statement inside the try
\* block / the with block raises: to the finally block / the with exit.
AbortPc_continue == "iter"

AbortPc == IF IsBGS THEN "finally" ELSE "exit"

\* The first statement after _process_frame in the loop body.
FirstBodyPc ==
    CASE family = "DenseOpticalFlow" -> "flow_cart"
      [] family = "BackgroundSubtractor" -> "bg_mask"
      [] family = "EdgeDetector" -> "edge_masks"
      [] OTHER -> "feat_coords"

\* "self._reset()".  In BackgroundSubtractor.process it runs inside the try
\* block after the reader and the writers were opened; in the other three
\* families it runs before the with statement.
Reset ==
    /\ pc = "reset"
    /\ resets' = resets + 1
    /\ log' = Append(log, Ev("_reset", "self"))
    /\ IF IsBGS
         THEN IF CanCreateBackgroundSubtractor(backend)
                THEN /\ fgbg' = BackgroundSubtractor_reset(fgbg)
                     /\ pc' = "iter"
                     /\ NoRaise
                ELSE /\ Raise("BackgroundSubtractorError", "_reset")
                     /\ pc' = "finally"
                     /\ UNCHANGED fgbg
         ELSE /\ pc' = "enter"
              /\ NoRaise
              /\ UNCHANGED fgbg
    /\ prev_frame' = IF variant = "FarnebackDenseOpticalFlow"
                       THEN Farneback_reset(prev_frame)
                       ELSE prev_frame
    /\ UNCHANGED << data, inst, args, frame_number, res, hnd, ensured, outs,
                    calls, results >>

\* The outcomes of one _process_frame(img) call: the value returned (or the
\* exception raised) and the cross-frame state it leaves behind.  A call may
\* raise before or after it has touched the state.
ProcessFrameOutcomes ==
    CASE variant = "FarnebackDenseOpticalFlow" ->
           LET o == Farneback_process_frame(prev_frame, img) IN
           { [ exc |-> "none", res |-> Some(o.flow), prev |-> o.prev,
               model |-> fgbg ],
             [ exc |-> "cv2.error", res |-> None, prev |-> prev_frame,
               model |-> fgbg ],
             [ exc |-> "cv2.error", res |-> None,
               prev |-> Farneback_prev(prev_frame, img), model |-> fgbg ] }
      [] IsBGS ->
           IF fgbg = None
             THEN { [ exc |-> "AttributeError", res |-> None,
                      prev |-> prev_frame, model |-> fgbg ] }
             ELSE LET o == BackgroundSubtractor_process_frame(
                               variant, fgbg[1], img) IN
                  { [ exc |-> "none", res |-> Some(o.out),
                      prev |-> prev_frame, model |-> o.model ],
                    [ exc |-> "cv2.error", res |-> None,
                      prev |-> prev_frame, model |-> fgbg ],
                    [ exc |-> "cv2.error", res |-> None,
                      prev |-> prev_frame, model |-> o.model ] }
      [] variant = "CannyEdgeDetector" ->
           { [ exc |-> "none", res |-> Some(Canny_process_frame(img)),
               prev |-> prev_frame, model |-> fgbg ],
             [ exc |-> "cv2.error", res |-> None, prev |-> prev_frame,
               model |-> fgbg ] }
      [] OTHER ->
           { [ exc |-> "none",
               res |-> Some(FeaturePoint_process_frame(variant, img)),
               prev |-> prev_frame, model |-> fgbg ],
             [ exc |-> "cv2.error", res |-> None, prev |-> prev_frame,
               model |-> fgbg ] }

\* "x = self._process_frame(img)", the first statement of the loop body.
ProcessFrame ==
    /\ pc = "pf"
    /\ calls' = calls + 1
    /\ log' = Append(log, Ev("_process_frame", "self"))
    /\ \E o \in ProcessFrameOutcomes :
         /\ prev_frame' = o.prev
         /\ fgbg' = o.model
         /\ res' = o.res
         /\ IF o.exc = "none"
              THEN /\ results' = Append(results, o.res[1])
                   /\ pc' = FirstBodyPc
                   /\ NoRaise
              ELSE /\ Raise(o.exc, "_process_frame")
                   /\ pc' = AbortPc
                   /\ UNCHANGED results
    /\ UNCHANGED << data, inst, args, frame_number, hnd, ensured, outs, resets >>

\* The reader has another frame to give.
HasNextFrame == frame_number < Len(video)

\* The reader numbers the frames it gives 1, 2, ...
FrameNumberAfterRead == frame_number + 1

\* "for img in p" / "for img in r": the next frame with its 1-based
\* frame_number, or the end of the loop.
NextFrame ==
    /\ pc = "iter"
    /\ IF HasNextFrame
         THEN /\ frame_number' = FrameNumberAfterRead
              /\ pc' = "pf"
         ELSE /\ pc' = AbortPc
              /\ UNCHANGED frame_number
    /\ UNCHANGED << data, inst, alg, args, res, err, raises, hnd, ensured, outs,
                    calls, resets, results, log >>

----------------------------------------------------------------------------
\* Sinks

\* A path argument left at None is falsy: "if cart_path:".
Requested_always(p) == TRUE

Requested(p) == p \in req

\* The index put into the path template: "cart_path % p.frame_number".
FileIndex_zero_based == frame_number - 1

FileIndex == frame_number

\* "if path: np.save(path % frame_number, data)": one .npy file named by
\* the frame number, or an I/O error.
SaveArray(p, fmt, nxt) ==
    /\ IF Requested(p)
         THEN \/ /\ files' = [ files EXCEPT ![p] =
                       Append(@, [ idx |-> FileIndex, fmt |-> fmt,
                                   of |-> res[1] ]) ]
                 /\ log' = Append(log, Ev("np.save", p))
                 /\ pc' = nxt
                 /\ NoRaise
              \/ /\ log' = Append(log, Ev("np.save", p))
                 /\ Raise("IOError", "np.save")
                 /\ pc' = AbortPc
                 /\ UNCHANGED files
         ELSE /\ pc' = nxt
              /\ NoRaise
              /\ UNCHANGED << files, log >>
    /\ UNCHANGED << data, inst, alg, args, frame_number, res, hnd, ensured, vids,
                    calls, resets, results >>

\* "if path: w.write(frame)": one frame appended to the output video, or an
\* I/O error.
WriteVideo(p, fmt, nxt) ==
    /\ IF Requested(p)
         THEN \/ /\ vids' = [ vids EXCEPT ![p] =
                       Append(@, [ fmt |-> fmt, of |-> res[1] ]) ]
                 /\ log' = Append(log, Ev("write", p))
                 /\ pc' = nxt
                 /\ NoRaise
              \/ /\ log' = Append(log, Ev("write", p))
                 /\ Raise("IOError", "write")
                 /\ pc' = AbortPc
                 /\ UNCHANGED vids
         ELSE /\ pc' = nxt
              /\ NoRaise
              /\ UNCHANGED << vids, log >>
    /\ UNCHANGED << data, inst, alg, args, frame_number, res, hnd, ensured, files,
                    calls, resets, results >>

----------------------------------------------------------------------------
\* DenseOpticalFlow.process, loop body

\* "if not polar_path and not vid_path: continue"
FlowContinue_or == "polar_path" \notin req \/ "vid_path" \notin req

FlowContinue == "polar_path" \notin req /\ "vid_path" \notin req

\* "if cart_path: np.save(...)", then the continue test.
FlowCart ==
    /\ pc = "flow_cart"
    /\ SaveArray("cart_path", "cart",
                 IF FlowContinue THEN "iter" ELSE "flow_polar")

\* cv2.cartToPolar and "if polar_path: np.save(...)"
FlowPolar ==
    /\ pc = "flow_polar"
    /\ SaveArray("polar_path", "polar", "flow_vid")

\* "if vid_path: p.write(_polar_flow_to_img(mag, ang))"
FlowVid ==
    /\ pc = "flow_vid"
    /\ WriteVideo("vid_path", "hsv2bgr", "iter")

\* EdgeDetector.process, loop body
EdgeMasks ==
    /\ pc = "edge_masks"
    /\ SaveArray("masks_path", "bool", "edge_vid")

EdgeVid ==
    /\ pc = "edge_vid"
    /\ WriteVideo("vid_path", "gray2bgr", "iter")

\* FeaturePointDetector.process, loop body
FeatCoords ==
    /\ pc = "feat_coords"
    /\ SaveArray("coords_path", "unpack_keypoints", "feat_vid")

FeatVid_reprocess ==
    /\ pc = "feat_vid"
    /\ WriteVideo("vid_path", "drawKeypoints", "pf")

FeatVid ==
    /\ pc = "feat_vid"
    /\ WriteVideo("vid_path", "drawKeypoints", "iter")

\* BackgroundSubtractor.process, loop body
BgMask ==
    /\ pc = "bg_mask"
    /\ SaveArray("fgmask_path", "fgmask", "bg_fgvid")

BgFgVid ==
    /\ pc = "bg_fgvid"
    /\ WriteVideo("fgvid_path", "masked_img", "bg_bgvid")

BgBgVid ==
    /\ pc = "bg_bgvid"
    /\ WriteVideo("bgvid_path", "bgimg", "iter")

----------------------------------------------------------------------------
\* The with statement of the VideoProcessor families

Open(h) == [ opened EXCEPT ![h] = @ + 1 ]

Close(c, h) == [ c EXCEPT ![h] = @ + 1 ]

\* "with etav.VideoProcessor(input_path, out_single_vidpath=vid_path) as p":
\* the input stream is opened, then the output video if one is requested.
\* A failed open releases what was opened and leaves process().
VideoProcessorEnter ==
    /\ pc = "enter"
    /\ \/ /\ log' = Append(log, Ev("open", "r"))
          /\ Raise("IOError", "open_r")
          /\ pc' = "done"
          /\ UNCHANGED hnd
       \/ /\ "vid_path" \in req
          /\ opened' = Open("r")
          /\ closed' = Close(closed, "r")
          /\ log' = log \o << Ev("open", "r"), Ev("open", "vw"),
                              Ev("close", "r") >>
          /\ Raise("IOError", "open_vw")
          /\ pc' = "done"
       \/ /\ opened' = IF "vid_path" \in req
                         THEN [ Open("r") EXCEPT !["vw"] = @ + 1 ]
                         ELSE Open("r")
          /\ log' = log \o (IF "vid_path" \in req
                              THEN << Ev("open", "r"), Ev("open", "vw") >>
                              ELSE << Ev("open", "r") >>)
          /\ NoRaise
          /\ pc' = "iter"
          /\ UNCHANGED closed
    /\ UNCHANGED << data, inst, alg, args, frame_number, res, ensured, outs,
                    calls, resets, results >>

\* Leaving the with block, normally or by an exception: the output video is
\* closed, then the input stream; an exception in flight goes on.
VideoProcessorExit ==
    /\ pc = "exit"
    /\ closed' = IF opened["vw"] > 0
                   THEN Close(Close(closed, "vw"), "r")
                   ELSE Close(closed, "r")
    /\ log' = log \o (IF opened["vw"] > 0
                        THEN << Ev("close", "vw"), Ev("close", "r") >>
                        ELSE << Ev("close", "r") >>)
    /\ pc' = "done"
    /\ UNCHANGED << data, inst, alg, args, frame_number, res, err, raises, opened,
                    ensured, outs, calls, resets, results >>

----------------------------------------------------------------------------
\* BackgroundSubtractor.process: reader, writers, try/finally

\* "r = etav.FFmpegVideoReader(input_path)", before the try block.
OpenReader ==
    /\ pc = "open_r"
    /\ log' = Append(log, Ev("open", "r"))
    /\ \/ /\ opened' = Open("r")
          /\ NoRaise
          /\ pc' = "open_fgw"
       \/ /\ Raise("IOError", "open_r")
          /\ pc' = "done"
          /\ UNCHANGED opened
    /\ UNCHANGED << data, inst, alg, args, frame_number, res, closed, ensured,
                    outs, calls, resets, results >>

\* "if path: w = etav.FFmpegVideoWriter(path, r.frame_rate, r.frame_size)",
\* inside the try block.
OpenWriter(p, h, nxt) ==
    /\ IF p \in req
         THEN /\ log' = Append(log, Ev("open", h))
              /\ \/ /\ opened' = Open(h)
                    /\ NoRaise
                    /\ pc' = nxt
                 \/ /\ Raise("IOError", "open_" \o h)
                    /\ pc' = "finally"
                    /\ UNCHANGED opened
         ELSE /\ pc' = nxt
              /\ NoRaise
              /\ UNCHANGED << opened, log >>
    /\ UNCHANGED << data, inst, alg, args, frame_number, res, closed, ensured,
                    outs, calls, resets, results >>

OpenFgWriter_bg_path ==
    /\ pc = "open_fgw"
    /\ OpenWriter("bgvid_path", "fgw", "open_bgw")

OpenFgWriter ==
    /\ pc = "open_fgw"
    /\ OpenWriter("fgvid_path", "fgw", "open_bgw")

OpenBgWriter_skip_reset ==
    /\ pc = "open_bgw"
    /\ OpenWriter("bgvid_path", "bgw", "iter")

OpenBgWriter ==
    /\ pc = "open_bgw"
    /\ OpenWriter("bgvid_path", "bgw", "reset")

\* The local name w is bound only if its writer was constructed.
Bound(h) == opened[h] > 0

\* "if fgvid_path: fgw.close()": the closed-counts after the statement.
CloseIfRequested_fg_only(c, p, h) ==
    IF p \in req /\ h = "fgw" THEN Close(c, h) ELSE c

CloseIfRequested(c, p, h) == IF p \in req THEN Close(c, h) ELSE c

CloseEvent(l, p, h) == IF p \in req THEN Append(l, Ev("close", h)) ELSE l

\* "finally: if fgvid_path: fgw.close()  if bgvid_path: bgw.close()".
\* Closing a name that was never bound raises UnboundLocalError, which
\* replaces the exception in flight and ends the finally block.  The reader
\* r is not closed.
Finally ==
    /\ pc = "finally"
    /\ pc' = "done"
    /\ IF "fgvid_path" \in req /\ ~Bound("fgw")
         THEN /\ Raise("UnboundLocalError", "close_fgw")
              /\ log' = Append(log, Ev("close", "fgw"))
              /\ UNCHANGED closed
         ELSE LET c1 == CloseIfRequested(closed, "fgvid_path", "fgw")
                  l1 == CloseEvent(log, "fgvid_path", "fgw")
              IN IF "bgvid_path" \in req /\ ~Bound("bgw")
                   THEN /\ Raise("UnboundLocalError", "close_bgw")
                        /\ closed' = c1
                        /\ log' = Append(l1, Ev("close", "bgw"))
                   ELSE /\ closed' = CloseIfRequested(c1, "bgvid_path", "bgw")
                        /\ log' = CloseEvent(l1, "bgvid_path", "bgw")
                        /\ NoRaise
    /\ UNCHANGED << data, inst, alg, args, frame_number, res, opened, ensured,
                    outs, calls, resets, results >>

----------------------------------------------------------------------------

Next ==
    \/ Call
    \/ EnsureBasedirs
    \/ Reset
    \/ VideoProcessorEnter
    \/ NextFrame
    \/ ProcessFrame
    \/ FlowCart
    \/ FlowPolar
    \/ FlowVid
    \/ EdgeMasks
    \/ EdgeVid
    \/ FeatCoords
    \/ FeatVid
    \/ VideoProcessorExit
    \/ OpenReader
    \/ OpenFgWriter
    \/ OpenBgWriter
    \/ BgMask
    \/ BgFgVid
    \/ BgBgVid
    \/ Finally

Spec == Init /\ [][Next]_vars

----------------------------------------------------------------------------
\* eta/core/data.py: DataContainer operations

\* cls._validate() raises ValueError: _DATA_CLS is None.
ValidateFails_never(cls) == FALSE

ValidateFails(cls) == DATA_CLS(cls) = None

\* The caller's program binds each of its variables once.
Held(s) == slot[s] # None

ClassOf(s) == slot[s][1].cls

CellOf(s) == slot[s][1].data

\* self.data of the container that s holds
DataOf(s) == heap[CellOf(s)]

\* A list object that no variable other than s reaches.
FreeCell(s) ==
    CHOOSE c \in Cells : \A t \in Slots \ { s } : ~Held(t) \/ CellOf(t) # c

\* The heap once the lists that no container of sl holds are collected.
Collect(hp, sl) ==
    [ c \in Cells |->
        IF \E s \in Slots : sl[s] # None /\ sl[s][1].data = c
        THEN hp[c] ELSE << >> ]

\* s = cls(...) has returned an instance whose data is list c = items;
\* origin tells what the instance was made from.
Bind(s, cls, c, items, origin) ==
    /\ slot' = [ slot EXCEPT ![s] = Some([ cls |-> cls, data |-> c,
                                           origin |-> origin ]) ]
    /\ heap' = Collect([ heap EXCEPT ![c] = items ], slot')

\* The data argument of __init__: None, a list the caller has just built
\* from items, or the very list the caller built for the container in slot
\* `of` ("same").
Arg(kind, items, of) == [ kind |-> kind, items |-> items, of |-> of ]

\* The container in slot s was constructed from a list the caller built.
FromExplicitList(s) ==
    Held(s) /\ slot[s][1].origin \in { "list", "empty_list" }

\* That list as it is now: the container's own data if the list was not
\* empty, and still empty otherwise (the container did not keep it).
ExplicitList(s) ==
    IF slot[s][1].origin = "list" THEN DataOf(s) ELSE << >>

Args(s) ==
    IF s = "c1"
    THEN { Arg("None", << >>, "none") }
            \cup { Arg("list", l, "none") : l \in SeqsUpTo(Instances, MaxLen) }
    ELSE { Arg("same", << >>, t) :
             t \in { t \in { "c1" } : FromExplicitList(t) } }

ArgItems(arg) ==
    IF arg.kind = "same" THEN ExplicitList(arg.of) ELSE arg.items

\* What an instance constructed from arg was made from.
Origin(arg) ==
    IF arg.kind = "list" /\ arg.items = << >> THEN "empty_list" ELSE arg.kind

\* "self.data = data or []": a non-empty list is kept as it is, the very
\* object; None and an empty list give a new empty list.
DataOrNew(s, arg) ==
    IF arg.kind = "same" /\ ArgItems(arg) # << >>
    THEN CellOf(arg.of)
    ELSE FreeCell(s)

\* s = cls(data=arg)
Construct(s, cls, arg) ==
    /\ ~Held(s)
    /\ IF ValidateFails(cls)
       THEN /\ ret' = Ret("init", cls, "none", s, "ValueError")
            /\ UNCHANGED << heap, slot >>
       ELSE /\ Bind(s, cls, DataOrNew(s, arg), ArgItems(arg), Origin(arg))
            /\ ret' = Ret("init", cls, "none", s, "none")
    /\ UNCHANGED proc

\* s.add(o)
Add(s, o) ==
    /\ Held(s)
    /\ Len(DataOf(s)) < MaxLen
    /\ heap' = [ heap EXCEPT ![CellOf(s)] = Append(@, o) ]
    /\ ret' = Ret("add", ClassOf(s), s, "none", "none")
    /\ UNCHANGED << slot, proc >>

\* match(bs) for the functions callers pass as match: any and all
ApplyMatch_all_true(m, bs) ==
    m = "all" \/ \E i \in DOMAIN bs : bs[i]

ApplyMatch_all(m, bs) ==
    \A i \in DOMAIN bs : bs[i]

ApplyMatch(m, bs) ==
    IF m = "any"
    THEN \E i \in DOMAIN bs : bs[i]
    ELSE \A i \in DOMAIN bs : bs[i]

\* "lambda o: match(f(o) for f in filters)"
Matches(o, filters, m) ==
    ApplyMatch(m, [ i \in DOMAIN filters |-> Eval(filters[i], o) ])

\* "list(filter(..., self.data))"
get_matches(items, filters, m) ==
    SelectSeq(items, LAMBDA o : Matches(o, filters, m))

\* "list(...)" builds a new list object for the result bound to t.
ResultCell_in_place(s, t) == CellOf(s)

ResultCell(s, t) == FreeCell(t)

\* t = s.get_matches(filters, match): the result is a new instance of the
\* receiver's class around the new list.
GetMatches(s, t, filters, m) ==
    /\ Held(s)
    /\ t # s
    /\ ~Held(t)
    /\ Bind(t, ClassOf(s), ResultCell(s, t),
            get_matches(DataOf(s), filters, m), "get_matches")
    /\ ret' = [ Ret("get_matches", ClassOf(s), s, t, "none")
                  EXCEPT !.filters = filters, !.match = m ]
    /\ UNCHANGED proc

\* s.count_matches(filters, match)
CountMatches(s, filters, m) ==
    /\ Held(s)
    /\ ret' = [ Ret("count_matches", ClassOf(s), s, "none", "none")
                  EXCEPT !.count = Len(get_matches(DataOf(s), filters, m)) ]
    /\ UNCHANGED << heap, slot, proc >>

\* t = cls.from_dict(d)
FromDict(t, cls, d) ==
    /\ ~Held(t)
    /\ IF ValidateFails(cls)
       THEN /\ ret' = [ Ret("from_dict", cls, "none", t, "ValueError")
                          EXCEPT !.d = d ]
            /\ UNCHANGED << heap, slot >>
       ELSE IF "data" \notin d.keys
       THEN /\ ret' = [ Ret("from_dict", cls, "none", t, "KeyError")
                          EXCEPT !.d = d ]
            /\ UNCHANGED << heap, slot >>
       ELSE IF DATA_CLS(cls) = None /\ d.data # << >>
       THEN /\ ret' = [ Ret("from_dict", cls, "none", t, "AttributeError")
                          EXCEPT !.d = d ]
            /\ UNCHANGED << heap, slot >>
       ELSE /\ Bind(t, cls, FreeCell(t),
                    [ i \in DOMAIN d.data |->
                        NamedRelativePoint_from_dict(d.data[i]) ],
                    "from_dict")
            /\ ret' = [ Ret("from_dict", cls, "none", t, "none")
                          EXCEPT !.d = d, !.decoded = Len(d.data) ]
    /\ UNCHANGED proc

\* NamedRelativePoint.serialize() and RelativePoint.serialize(): the
\* attributes of the instance as a dictionary.
serialize_record(o) ==
    [ label |-> o.label,
      relative_point |-> [ x |-> o.relative_point.x,
                           y |-> o.relative_point.y ] ]

\* DataContainer.serialize()
serialize(items) ==
    Dict({ "data" }, [ i \in DOMAIN items |-> serialize_record(items[i]) ])

\* The container that from_dict has just returned is encoded again.
Serialize ==
    /\ ret.op = "from_dict"
    /\ ret.exc = "none"
    /\ ret' = [ ret EXCEPT !.op = "serialize", !.on = ret.out,
                           !.encoded = serialize(DataOf(ret.out)) ]
    /\ UNCHANGED << heap, slot, proc >>

ConstructAny ==
    \E s \in Slots, cls \in Classes :
        \E arg \in Args(s) : Construct(s, cls, arg)

AddAny ==
    \E s \in Slots, o \in Instances : Add(s, o)

GetMatchesAny ==
    \E filters \in FilterLists, m \in { "any", "all" } :
        GetMatches("c1", "c2", filters, m)

CountMatchesAny ==
    \E s \in Slots, filters \in FilterLists, m \in { "any", "all" } :
        CountMatches(s, filters, m)

FromDictAny ==
    \E cls \in Classes, d \in EncodedContainers : FromDict("c1", cls, d)

\* A program that only uses the containers: no process() call is made.
InitData ==
    /\ variant = "CannyEdgeDetector"
    /\ backend = "OpenCV3"
    /\ Idle
    /\ NoContainers

NextData ==
    \/ ConstructAny
    \/ AddAny
    \/ GetMatchesAny
    \/ CountMatchesAny
    \/ FromDictAny
    \/ Serialize

SpecData == InitData /\ [][NextData]_vars

----------------------------------------------------------------------------
\* Properties

\* process() has returned or raised.
Done == pc = "done"

\* process() has returned without raising.
Returned == pc = "done" /\ err = "none"

N == Len(video)

\* The first exception of the call was raised by _process_frame or by a
\* sink write, i.e. inside the frame loop.
RaisedInLoop ==
    /\ raises # << >>
    /\ raises[1].at \in { "_process_frame", "np.save", "write" }

\* The first exception of the call was raised by opening the input stream or
\* a video writer.
RaisedInOpen ==
    /\ raises # << >>
    /\ raises[1].at \in { "open_r", "open_vw", "open_fgw", "open_bgw" }

\* The frame numbers of the files saved for array param p, in saving order.
Indices(p) == [ i \in 1..Len(files[p]) |-> files[p][i].idx ]

\* C1: every output video writer opened during a call is closed exactly once
\* by the time process() returns or raises (also when _process_frame or a
\* sink write raised on some frame); no writer is opened twice, and none is
\* closed that was not opened.
C1_WritersClosedOnce ==
    \A h \in Writers :
        /\ opened[h] <= 1
        /\ closed[h] <= opened[h]
        /\ Done => closed[h] = opened[h]

\* A BackgroundSubtractor call with both writers open in which frame 2
\* raised, and which ended with both writers closed once.
C1_Witness ==
    /\ Done
    /\ IsBGS
    /\ RaisedInLoop
    /\ raises[1].k = 2
    /\ opened["fgw"] = 1 /\ closed["fgw"] = 1
    /\ opened["bgw"] = 1 /\ closed["bgw"] = 1

\* C2: the input stream opened by a call is released exactly once by the
\* time process() returns or raises.
C2_ReaderReleasedOnce ==
    Done /\ opened["r"] > 0 => closed["r"] = 1

\* C3: in a call that returns without error, every requested array param
\* holds exactly the files with frame numbers 1..N, each once and in order;
\* at every moment the files saved for a param are numbered 1, 2, ... with
\* no gap and no repeat, and a param that was not requested has no file.
C3_ArrayFilesOnePerFrame ==
    \A p \in AllArrayParams :
        /\ p \notin req => files[p] = << >>
        /\ Indices(p) = [ i \in 1..Len(files[p]) |-> i ]
        /\ Len(files[p]) <= frame_number
        /\ Returned /\ p \in req => Len(files[p]) = N

\* A DenseOpticalFlow call over the longest video that returned with both
\* array params requested and no video.
C3_Witness ==
    /\ Returned
    /\ family = "DenseOpticalFlow"
    /\ req = { "cart_path", "polar_path" }
    /\ N = MaxFrames
    /\ Len(files["cart_path"]) = N
    /\ Len(files["polar_path"]) = N

\* No array file and no video frame has been written in this call.
NoWrites ==
    /\ \A p \in AllArrayParams : files[p] = << >>
    /\ \A p \in AllVideoParams : vids[p] = << >>

\* C4 as stated: a call with no output path set calls _process_frame
\* exactly N times and writes nothing.
C4_NoSinksVisitsAllFrames ==
    Done /\ req = {} => calls = N /\ NoWrites

\* C4 as amended: a call with no output path set writes nothing and calls
\* _process_frame at most N times, and exactly N times when it returns
\* without raising.
C4_NoSinksNoWrites ==
    run > 0 /\ req = {} =>
        /\ NoWrites
        /\ calls <= N
        /\ Returned => calls = N

\* A call over the longest video with no output path set has returned.
C4_Witness ==
    /\ Returned
    /\ req = {}
    /\ N = MaxFrames
    /\ calls = N

\* C5: every requested output video receives one frame per input frame, in
\* stream order: its i-th frame is made from the result for input frame i,
\* between two frames of an error-free call it holds frame_number frames,
\* and after a call that returned it holds N frames, whatever other params
\* are set; a video that was not requested receives nothing.
C5_VideoOneFramePerInput ==
    \A p \in AllVideoParams :
        /\ p \notin req => vids[p] = << >>
        /\ Len(vids[p]) <= frame_number
        /\ \A i \in 1..Len(vids[p]) : vids[p][i].of.curr.px = video[i].px
        /\ p \in req /\ pc = "iter" /\ raises = << >>
              => Len(vids[p]) = frame_number
        /\ Returned /\ p \in req => Len(vids[p]) = N

\* A DenseOpticalFlow call with only the video requested has returned with
\* one frame per input frame.
C5_Witness ==
    /\ Returned
    /\ family = "DenseOpticalFlow"
    /\ req = { "vid_path" }
    /\ N = MaxFrames
    /\ Len(vids["vid_path"]) = N

\* C6: once _process_frame or a sink write has raised on frame k, the call
\* is on its way out and ends raising: no later frame is read or processed,
\* nothing is written for a later frame, and for every requested array param
\* the files 1..k-1 saved before are still there.
C6_ErrorAbortsRun ==
    RaisedInLoop =>
        LET k == raises[1].k IN
        /\ k >= 1
        /\ pc \in { "finally", "exit", "done" }
        /\ Done => err # "none"
        /\ frame_number = k
        /\ calls = k
        /\ \A p \in AllVideoParams : Len(vids[p]) <= k
        /\ \A p \in AllArrayParams :
              /\ Len(files[p]) <= k
              /\ p \in req =>
                    /\ Len(files[p]) >= k - 1
                    /\ \A i \in 1..(k - 1) : files[p][i].idx = i

\* A DenseOpticalFlow call saving Cartesian arrays raised on frame 2 of 3
\* and ended with the file of frame 1 in place.
C6_Witness ==
    /\ Done
    /\ RaisedInLoop
    /\ raises[1].k = 2
    /\ N = 3
    /\ family = "DenseOpticalFlow"
    /\ "cart_path" \in req
    /\ Indices("cart_path") = << 1 >>

\* The times handle h was asked to open in this call.
OpenAttempts(h) ==
    Cardinality({ i \in DOMAIN log : log[i].op = "open" /\ log[i].obj = h })

\* C7: when opening the input stream or a video writer raised, process()
\* ends with that very exception, nothing else was raised during cleanup,
\* every handle that was opened has been released, and no open was tried
\* again.
C7_OpenErrorPropagates ==
    Done /\ RaisedInOpen =>
        /\ err = raises[1].exc
        /\ Len(raises) = 1
        /\ \A h \in Handles : closed[h] = opened[h] /\ OpenAttempts(h) <= 1

InLoop ==
    pc \in { "iter", "pf", "flow_cart", "flow_polar", "flow_vid",
             "edge_masks", "edge_vid", "feat_coords", "feat_vid",
             "bg_mask", "bg_fgvid", "bg_bgvid" }

\* C8 as stated: _process_frame is never called before _reset in the same
\* call, and every process() call makes exactly one _reset call.
C8_ResetExactlyOncePerCall ==
    /\ calls > 0 => resets >= 1
    /\ Done => resets = 1

\* C8 as amended: _process_frame is never called before _reset in the same
\* call, and a process() call makes at most one _reset call: exactly one
\* once it is in the frame loop or has returned without raising.
C8_ResetBeforeFrames ==
    /\ resets <= 1
    /\ calls > 0 => resets = 1
    /\ InLoop => resets = 1
    /\ Returned => resets = 1
    /\ \A i \in DOMAIN log :
          log[i].op = "_process_frame" =>
              \E j \in 1..(i - 1) : log[j].op = "_reset"

\* The second call on the instance has made its one _reset call and then
\* processed a frame.
C8_Witness ==
    /\ run = 2
    /\ resets = 1
    /\ calls >= 1

\* The cross-frame state of a freshly constructed instance after _reset.
Cleared == [ prev |-> None, model |-> IF IsBGS THEN Some(<< >>) ELSE None ]

\* One _process_frame call that returns, from cross-frame state st.
Step(st, im) ==
    CASE variant = "FarnebackDenseOpticalFlow" ->
           LET o == Farneback_process_frame(st.prev, im) IN
           [ res |-> o.flow, prev |-> o.prev, model |-> st.model ]
      [] IsBGS ->
           LET o == BackgroundSubtractor_process_frame(
                        variant, st.model[1], im) IN
           [ res |-> o.out, prev |-> st.prev, model |-> o.model ]
      [] variant = "CannyEdgeDetector" ->
           [ res |-> Canny_process_frame(im), prev |-> st.prev,
             model |-> st.model ]
      [] OTHER ->
           [ res |-> FeaturePoint_process_frame(variant, im),
             prev |-> st.prev, model |-> st.model ]

\* A freshly constructed instance after the first i frames of the video.
RECURSIVE FreshAfter(_)
FreshAfter(i) ==
    IF i = 0 THEN [ res |-> None, prev |-> Cleared.prev,
                    model |-> Cleared.model ]
             ELSE Step(FreshAfter(i - 1), video[i])

\* C9: in every call, also a later one on a used instance, the first
\* _process_frame call sees the cleared cross-frame state, and the results
\* of the call are those a freshly constructed instance gives on the video.
C9_ReuseEqualsFresh ==
    /\ pc = "pf" /\ calls = 0 =>
          /\ prev_frame = Cleared.prev
          /\ fgbg = Cleared.model
    /\ \A i \in 1..Len(results) : results[i] = FreshAfter(i).res

\* A second call on a FarnebackDenseOpticalFlow instance that still held a
\* previous frame when the call began has returned its results.
C9_Witness ==
    /\ run = 2
    /\ Returned
    /\ variant = "FarnebackDenseOpticalFlow"
    /\ entry.prev # None
    /\ N >= 2
    /\ Len(results) = N

\* C10: in FarnebackDenseOpticalFlow the first _process_frame call after
\* _reset finds no stored frame and estimates the flow from frame 1 to frame
\* 1, the k-th call (k > 1) estimates it from frame k-1 to frame k, and
\* after every call that returned the stored previous frame is the frame
\* just processed.
C10_FlowPairs ==
    variant = "FarnebackDenseOpticalFlow" =>
        /\ pc = "pf" /\ calls = 0 => prev_frame = None
        /\ \A k \in 1..Len(results) :
              /\ results[k].curr = Gray(video[k])
              /\ results[k].ctx =
                    Some(Gray(video[IF k = 1 THEN 1 ELSE k - 1]))
        /\ InLoop /\ pc # "pf" /\ calls >= 1 =>
              prev_frame = Some(Gray(video[calls]))

\* A FarnebackDenseOpticalFlow call has processed every frame of the longest
\* video.
C10_Witness ==
    /\ variant = "FarnebackDenseOpticalFlow"
    /\ N = MaxFrames
    /\ Len(results) = N
    /\ prev_frame = Some(Gray(video[N]))

\* The instance is a background subtractor and the installed OpenCV has no
\* createBackgroundSubtractorMOG2 / createBackgroundSubtractorKNN.
Unsupported == IsBGS /\ backend = "OpenCV2"

\* C11 as stated: with such a backend, a process() call of the variant ends
\* raising BackgroundSubtractorError, with no _process_frame call made and
\* nothing written.
C11_UnsupportedRaisesError ==
    Unsupported /\ Done =>
        /\ err = "BackgroundSubtractorError"
        /\ calls = 0
        /\ NoWrites

\* C11 as amended: with such a backend no process() call of the variant
\* calls _process_frame, reads a frame or writes anything, and every call
\* ends raising: BackgroundSubtractorError, raised by _reset before frame 1,
\* whenever the call got as far as _reset (directory creation and the opens
\* did not raise before).  With any backend the error is never raised once
\* a frame has been processed.
C11_UnsupportedBeforeFrames ==
    /\ \A i \in DOMAIN raises :
          raises[i].exc = "BackgroundSubtractorError" =>
              raises[i].k = 0 /\ calls = 0
    /\ Unsupported /\ run > 0 =>
          /\ calls = 0
          /\ frame_number = 0
          /\ NoWrites
          /\ Done => err # "none"
          /\ resets > 0 =>
                raises = << [ exc |-> "BackgroundSubtractorError",
                              at |-> "_reset", k |-> 0 ] >>
          /\ Done /\ resets > 0 => err = "BackgroundSubtractorError"

\* An OpenCV 2 background-subtractor call with every path set on the longest
\* video ended with BackgroundSubtractorError and both writers closed.
C11_Witness ==
    /\ Unsupported
    /\ Done
    /\ err = "BackgroundSubtractorError"
    /\ req = { "fgmask_path", "fgvid_path", "bgvid_path" }
    /\ N = MaxFrames
    /\ closed["fgw"] = 1 /\ closed["bgw"] = 1

\* The call has reset the algorithm, asked for a handle or processed a frame.
RunStarted ==
    \/ resets > 0
    \/ calls > 0
    \/ \E h \in Handles : opened[h] > 0 \/ OpenAttempts(h) > 0

\* C12: the directory of every requested array path has been ensured before
\* _reset is called, before the input or a writer is opened and before any
\* frame is processed; when ensuring a directory raises, process() ends with
\* that I/O error without having opened a handle, reset the algorithm or
\* processed a frame.
C12_DirsBeforeRun ==
    /\ RunStarted => ensured = req \cap AllArrayParams
    /\ \A i, j \in DOMAIN log :
          /\ log[i].op = "ensure_basedir"
          /\ log[j].op \in { "_reset", "open", "_process_frame" }
          => i < j
    /\ raises # << >> /\ raises[1].at = "ensure_basedir" =>
          /\ Done
          /\ err = "IOError"
          /\ resets = 0
          /\ calls = 0
          /\ \A h \in Handles : opened[h] = 0 /\ OpenAttempts(h) = 0

\* A DenseOpticalFlow call with both array paths and the video set has
\* ensured both directories and is processing frame 1.
C12_Witness ==
    /\ family = "DenseOpticalFlow"
    /\ req = { "cart_path", "polar_path", "vid_path" }
    /\ ensured = { "cart_path", "polar_path" }
    /\ resets = 1
    /\ opened["r"] = 1
    /\ calls = 1

\* Where in the log handle h was opened / closed.
OpenPos(h) == CHOOSE i \in DOMAIN log : log[i].op = "open" /\ log[i].obj = h

ClosePos(h) ==
    CHOOSE i \in DOMAIN log : log[i].op = "close" /\ log[i].obj = h

\* C19: the handles a call has released were released in the reverse of
\* the order in which it acquired them.
C19_ReleaseInReverseOrder ==
    \A g, h \in Handles :
        /\ opened[g] > 0 /\ opened[h] > 0
        /\ closed[g] > 0 /\ closed[h] > 0
        /\ OpenPos(g) < OpenPos(h)
        => ClosePos(h) < ClosePos(g)

RaisedInReset == raises # << >> /\ raises[1].at = "_reset"

\* C20: _reset is called before the input stream and before any output
\* video is opened, so that no handle is held when _reset raises.
C20_ResetBeforeOpen ==
    /\ \A h \in Handles : opened[h] > 0 \/ OpenAttempts(h) > 0 => resets > 0
    /\ RaisedInReset => \A h \in Handles : opened[h] = 0


----------------------------------------------------------------------------
\* DataContainer: properties

\* The container that received the last operation, and the one it returned.
Receiver == DataOf(ret.on)

Result == DataOf(ret.out)

GotMatches(m) == ret.op = "get_matches" /\ ret.match = m

\* The elements of items that occur in A or in B, in the order of items.
UnionInOrder(items, A, B) ==
    SelectSeq(items, LAMBDA o : o \in Range(A) \cup Range(B))

\* C13: get_matches([p1, p2], any) holds exactly the records that
\* get_matches([p1], any) or get_matches([p2], any) holds, in the order of
\* the receiver, a record that satisfies both predicates not repeated.
C13_AnyIsUnion ==
    GotMatches("any") /\ Len(ret.filters) = 2
        => Result = UnionInOrder(Receiver,
                        get_matches(Receiver, << ret.filters[1] >>, "any"),
                        get_matches(Receiver, << ret.filters[2] >>, "any"))

\* The receiver holds a record that only the second predicate accepts and
\* then one that both accept; the result holds each of them once.
C13_Witness ==
    /\ GotMatches("any")
    /\ ret.filters = << "label_a", "on_x_axis" >>
    /\ Len(Receiver) = 2
    /\ ~Eval("label_a", Receiver[1]) /\ Eval("on_x_axis", Receiver[1])
    /\ Eval("label_a", Receiver[2]) /\ Eval("on_x_axis", Receiver[2])
    /\ Result = Receiver

\* C14 as stated: for every predicate list, the empty one included, every
\* record of get_matches(ps, all) is a record of get_matches(ps, any).
C14_AllWithinAny ==
    GotMatches("all")
        => Range(Result) \subseteq
               Range(get_matches(Receiver, ret.filters, "any"))

\* C14: for every non-empty predicate list, every record of
\* get_matches(ps, all) is a record of get_matches(ps, any).
C14_AllWithinAnyNonEmpty ==
    GotMatches("all") /\ ret.filters # << >>
        => Range(Result) \subseteq
               Range(get_matches(Receiver, ret.filters, "any"))

\* Two predicates with "all" over a receiver of which "any" keeps two
\* records and "all" only one.
C14_Witness ==
    /\ GotMatches("all")
    /\ Len(ret.filters) = 2
    /\ Len(get_matches(Receiver, ret.filters, "any")) = 2
    /\ Len(Result) = 1

\* C15: after constructions from explicit lists and add() calls, every
\* record a container holds is of the container's declared record type.
C15_OnlyDeclaredType ==
    \A s \in Slots :
        Held(s) => \A i \in DOMAIN DataOf(s) :
                       Some(DataOf(s)[i].type) = DATA_CLS(ClassOf(s))

\* C16: from_dict of an object whose "data" list is empty and of one whose
\* "data" key is missing both return a container with num = 0.
C16_EmptyOrMissingIsEmpty ==
    /\ ret.op = "from_dict"
    /\ DATA_CLS(ret.cls) # None
    /\ "data" \notin ret.d.keys \/ ret.d.data = << >>
    => /\ ret.exc = "none"
       /\ Held(ret.out)
       /\ Len(Result) = 0

\* C17: construction and from_dict of a class whose _DATA_CLS is unset
\* raise before a record is stored or decoded, so that no instance of such
\* a class exists; a class whose _DATA_CLS is bound never raises this error.
C17_UnsetFailsFast ==
    /\ \A s \in Slots : Held(s) => DATA_CLS(ClassOf(s)) # None
    /\ ret.op \in { "init", "from_dict" }
        => /\ ret.exc = "ValueError" <=> DATA_CLS(ret.cls) = None
           /\ DATA_CLS(ret.cls) = None
                => ~Held(ret.out) /\ ret.decoded = 0

\* from_dict of the base class is given a full list of records to decode.
C17_Witness ==
    /\ ret.op = "from_dict"
    /\ ret.cls = "DataContainer"
    /\ ret.exc = "ValueError"
    /\ "data" \in ret.d.keys
    /\ Len(ret.d.data) = MaxLen

\* An encoded container is well formed: it has the key "data" and the
\* label of every record is a string.
WellFormed(d) ==
    /\ "data" \in d.keys
    /\ \A i \in DOMAIN d.data : d.data[i].label.t = "str"

\* C18: a well-formed encoded container of n records, decoded and encoded
\* again, gives n records in the same order whose label and coordinates
\* equal the original ones.
C18_RoundTrip ==
    ret.op = "serialize" /\ WellFormed(ret.d)
        => /\ Len(ret.encoded.data) = Len(ret.d.data)
           /\ \A i \in DOMAIN ret.d.data :
                /\ ret.encoded.data[i].label = ret.d.data[i].label
                /\ ret.encoded.data[i].relative_point
                       = ret.d.data[i].relative_point

\* A full list of records that differ in label and coordinates.
C18_Witness ==
    /\ ret.op = "serialize"
    /\ WellFormed(ret.d)
    /\ Len(ret.d.data) = MaxLen
    /\ ret.d.data[1].label # ret.d.data[2].label
    /\ ret.d.data[1].relative_point # ret.d.data[2].relative_point

----------------------------------------------------------------------------
\* Stream order

\* The positions in the log of the _process_frame call made for frame k,
\* and of the sink writes made for frame k.
Processed(k) ==
    { i \in DOMAIN log : log[i].op = "_process_frame" /\ log[i].k = k }

Written(k) ==
    { i \in DOMAIN log : log[i].op \in { "np.save", "write" } /\ log[i].k = k }

\* C21: every frame the loop has taken from the stream gets exactly one
\* _process_frame call (none yet while the call for the current frame is
\* about to be made), that call precedes every sink write for the frame,
\* every write for frame k precedes the call for frame k + 1, and the
\* array files of a param are numbered 1, 2, ... in the order written.
C21_StreamOrder ==
    /\ \A k \in 1..frame_number :
         /\ Cardinality(Processed(k))
               = IF k = frame_number /\ pc = "pf" THEN 0 ELSE 1
         /\ \A i \in Written(k) : \E j \in Processed(k) : j < i
         /\ \A i \in Written(k) : \A j \in Processed(k + 1) : i < j
    /\ \A i \in DOMAIN log :
         log[i].op \in { "_process_frame", "np.save", "write" }
            => log[i].k \in 1..frame_number
    /\ \A p \in AllArrayParams :
         \A i \in DOMAIN files[p] : files[p][i].idx = i

\* A FeaturePointDetector call over the longest video that returned with
\* both sinks requested: two writes for every frame.
C21_Witness ==
    /\ Returned
    /\ family = "FeaturePointDetector"
    /\ req = { "coords_path", "vid_path" }
    /\ N = MaxFrames
    /\ \A k \in 1..N : Cardinality(Written(k)) = 2

----------------------------------------------------------------------------
\* Output video handles

\* The output video writers that are open now.
OpenWriters == { h \in Writers : opened[h] > closed[h] }

\* C22 as stated: at every moment of every call at most one output video
\* writer is open.
C22_AtMostOneVideoOpen == Cardinality(OpenWriters) <= 1

\* C22: at every moment of a call there are at most as many output video
\* writers open as video paths were requested: at most one in the
\* VideoProcessor families, at most two in BackgroundSubtractor.process.
C22_VideoHandlesOpen ==
    /\ Cardinality(OpenWriters) <= Cardinality(req \cap VideoParams(family))
    /\ Cardinality(OpenWriters) <= IF IsBGS THEN 2 ELSE 1

\* The frame loop of a BackgroundSubtractor call is at the last frame of
\* the longest video with both writers open.
C22_Witness ==
    /\ IsBGS
    /\ OpenWriters = { "fgw", "bgw" }
    /\ pc = "bg_bgvid"
    /\ frame_number = MaxFrames

----------------------------------------------------------------------------
\* DataContainer: frame properties

\* The container in slot t was returned by get_matches.
IsResult(t) == Held(t) /\ slot[t][1].origin = "get_matches"

\* The data of the container in slot t is what it was before the last
\* operation.
Unchanged(t) == Some(DataOf(t)) = ret.before[t]

\* C23: get_matches and count_matches leave the data of the receiver as it
\* was; the container get_matches returns holds a list object of its own,
\* so that add() on the result leaves the receiver as it was and add() on
\* the receiver leaves the result as it was.
C23_MatchesLeaveReceiver ==
    /\ ret.op \in { "get_matches", "count_matches" } => Unchanged(ret.on)
    /\ \A s, t \in Slots :
         s # t /\ Held(s) /\ IsResult(t) => CellOf(s) # CellOf(t)
    /\ ret.op = "add"
         => \A t \in Slots \ { ret.on } :
              Held(t) /\ (IsResult(t) \/ IsResult(ret.on)) => Unchanged(t)

\* get_matches kept the one record of the receiver, then add() was called
\* on the result.
C23_Witness ==
    /\ ret.op = "add"
    /\ ret.on = "c2"
    /\ IsResult("c2")
    /\ Len(DataOf("c1")) = 1
    /\ Len(DataOf("c2")) = 2
    /\ DataOf("c2")[1] = DataOf("c1")[1]

\* The containers in the two slots were constructed from the same list
\* that the caller built.
SameExplicitList ==
    /\ FromExplicitList("c1")
    /\ Held("c2")
    /\ slot["c2"][1].origin = "same"

\* C24: of two containers constructed from the same explicit list, empty
\* or not, add() on one leaves the data (and so num) of the other as it was.
C24_AddLeavesOtherUnchanged ==
    ret.op = "add" /\ SameExplicitList
        => \A t \in Slots \ { ret.on } : Unchanged(t)

====
